---- MODULE Spec2Model ----
(***************************************************************************)
(* Smart-farm IoT sensor simulator (simulator/sensor_simulator.py and      *)
(* simulator/sensor_simulator1.py): SensorSimulator.run_simulation, its    *)
(* simulate_* transition functions, the two publish helpers and the MQTT   *)
(* callbacks that run on the client library's background network thread.   *)
(*                                                                         *)
(* Numbers: every measurement is a fixed-point integer in thousandths      *)
(* (28.0 degrees = 28000, 0.05 % = 50).  round(x, 2) therefore rounds to   *)
(* a multiple of 10.  The wall clock counts quarter days of the simulated  *)
(* day (6 simulated hours = 360 real seconds), so sin((hour-6)*pi/12) is   *)
(* exactly -1, 0, 1, 0 at the sampled hours 0, 6, 12, 18.                  *)
(***************************************************************************)
EXTENDS Integers, Sequences, FiniteSets, TLC

VARIABLES
    script,            \* which of the two scripts runs
    devices,           \* run_simulation's roster argument
    pc,                \* position of the main thread in run_simulation
    i,                 \* index of the device the current for-loop is at
    iteration,         \* run_simulation's local counter
    data,              \* the reading returned by simulate_*, not yet published
    connected,         \* self.connected
    base_temperature,  \* self.base_temperature
    base_humidity,     \* self.base_humidity
    soil_moisture,     \* self.soil_moisture
    light_intensity,   \* self.light_intensity
    ph_level,          \* self.ph_level
    start_time,        \* self.start_time
    now,               \* the wall clock read by time.time() / datetime.now()
    netLoop,           \* the client's background thread runs (loop_start .. loop_stop)
    session,           \* the broker session as the background thread sees it
    connectResult,     \* what connect() returned: "true", "false", "none" before it returns
    connectCalls,      \* number of client.connect calls the application made
    interrupted,       \* a KeyboardInterrupt has been raised in the main thread
    intrAt,            \* the position it was raised at
    ackPc,             \* main-thread position when on_connect first saw rc = 0
    dropped,           \* on_disconnect has fired while the tick loop was running
    statusLog,         \* every publish_device_status call, in order
    tickLog,           \* the publish_sensor_data calls of the current tick, in order
    lastPub,           \* the last message handed to client.publish
    readings,          \* number of readings generated so far
    soilStep,          \* what simulate_soil_moisture did to make the reading in data
    ticksLeft,         \* ticks the model still explores
    stamps,            \* per device, the timestamp of the last reading published for it
    clockBack,         \* the wall clock read less after the last time.sleep than before it
    soilWrites         \* simulate_soil_moisture calls of the current tick

vars == <<script, devices, pc, i, iteration, data, connected, base_temperature,
          base_humidity, soil_moisture, light_intensity, ph_level, start_time, now,
          netLoop, session, connectResult, connectCalls, interrupted, intrAt, ackPc,
          dropped, statusLog, tickLog, lastPub, readings, soilStep, ticksLeft,
          stamps, clockBack, soilWrites>>

simState == <<base_temperature, base_humidity, soil_moisture, light_intensity, ph_level>>

----------------------------------------------------------------------------
(* Bounds of the exploration *)

MaxTicks == 3
MaxTicksMixed == 1
MaxNow == 3
MaxSleep == 1
MaxTicksSim == 1
StartIteration == 400

(* Program constants *)

FARM_ID == 1
MQTT_ERR_SUCCESS == 0

\* return codes client.publish can give: success, MQTT_ERR_NO_CONN
PublishCodes == {MQTT_ERR_SUCCESS, 4}

\* CONNACK codes on_connect can be given: accepted, not authorised
ConnackCodes == {0, 5}

Scripts == {"sensor_simulator", "sensor_simulator1"}

KnownTypes == {"DHT22", "SOIL_MOISTURE", "LIGHT", "PH"}

----------------------------------------------------------------------------
(* Rosters *)

Dev(id, type, loc) == [id |-> id, type |-> type, location |-> loc]

\* the scenario roster of the specification: one DHT22 device
RosterOne == << Dev("DHT22-001", "DHT22", "Garden A") >>

\* main()'s roster with the second DHT22 replaced by a device of a kind the
\* dispatch does not know (the pump of ctest.data/test_pump.py)
RosterMixed ==
    << Dev("DHT22-001", "DHT22", "Garden A"),
       Dev("SOIL-001", "SOIL_MOISTURE", "Garden A"),
       Dev("PUMP-001", "PUMP", "Garden B"),
       Dev("SOIL-002", "SOIL_MOISTURE", "Garden B"),
       Dev("LIGHT-001", "LIGHT", "Garden A"),
       Dev("PH-001", "PH", "Garden A") >>

Rosters == {RosterOne, RosterMixed}

----------------------------------------------------------------------------
(* Random draws: sampled values of each random.uniform range, the end       *)
(* points where a limit or a claim depends on them, and values that do not  *)
(* fall on a hundredth so that round(x, 2) has something to round.          *)

TempNoise == {-1000, 125}                \* random.uniform(-1, 1)
HumNoise == {-3000, 3000}                \* random.uniform(-3, 3)
SoilDecay == {50, 150}                   \* random.uniform(0.05, 0.15)
SoilIrrigation == {15000, 25000}         \* random.uniform(15, 25)
LightNoise == {-2000000, 1234, 2000000}  \* random.uniform(-2000, 2000)
NightLight == {0, 100000}                \* random.uniform(0, 100)
PhNoise == {-20, 20}                     \* random.uniform(-0.02, 0.02)

----------------------------------------------------------------------------
(* Arithmetic helpers *)

Max(a, b) == IF a >= b THEN a ELSE b
Min(a, b) == IF a <= b THEN a ELSE b

\* round(x, 2) on thousandths: nearest hundredth, ties to the even hundredth
Round2(x) ==
    LET q == x \div 10
        r == x % 10
    IN  IF r < 5 THEN 10 * q
        ELSE IF r > 5 THEN 10 * (q + 1)
        ELSE IF q % 2 = 0 THEN 10 * q ELSE 10 * (q + 1)

\* 1000 * math.sin((hour - 6) * math.pi / 12) at the sampled hours
SinMilli(hour) ==
    CASE hour = 0 -> -1000
      [] hour = 6 -> 0
      [] hour = 12 -> 1000
      [] hour = 18 -> 0

\* mutant: strftime("%I:%M:%S"), a 12-hour time of day without the date; it
\* comes round every two units of the clock
StrfTime12(t) == <<"iso", t % 2>>

\* datetime.now().isoformat()
IsoFormat(t) == <<"iso", t>>

\* the dict literals are kept as their members in insertion order
Keys(d) == { d[n][1] : n \in 1..Len(d) }
\* data.get(k, "UNKNOWN")
Get(d, k) == IF k \in Keys(d) THEN d[CHOOSE n \in 1..Len(d) : d[n][1] = k][2] ELSE "UNKNOWN"

\* json.dumps: one member per dict entry, in the dict's order
json_dumps(d) == [n \in 1..Len(d) |-> [name |-> d[n][1], value |-> d[n][2]]]
Members(p) == { p[n].name : n \in 1..Len(p) }
Member(p, k) == p[CHOOSE n \in 1..Len(p) : p[n].name = k].value

NoData == << >>
NoPub == [topic |-> << >>, payload |-> << >>, qos |-> 0, rc |-> MQTT_ERR_SUCCESS]
NoSoilStep == [before |-> 0, raw |-> 0, after |-> 0, fired |-> FALSE, decay |-> 0]
\* no reading of the device was published yet
NoStamp == << >>
NoStamps == [n \in 1..Len(devices) |-> NoStamp]
\* datetime.fromisoformat: the instant an isoformat() string stands for
FromIsoFormat(s) == s[2]

----------------------------------------------------------------------------
(* SensorSimulator: the time factor and the four transition functions *)

\* get_time_factor: (elapsed / 60) % 24, the clock counting 360 s units
get_time_factor == (((now - start_time) * 360) \div 60) % 24

FarmMember == IF script = "sensor_simulator1" THEN << <<"farmId", FARM_ID>> >> ELSE << >>

simulate_dht22(device_id, n1, n2) ==
    LET hour == get_time_factor
        temp_variation == 5 * SinMilli(hour)
        temperature == base_temperature + temp_variation + n1
        humidity == Max(30000, Min(95000, base_humidity - (temp_variation * 2) + n2))
    IN  FarmMember \o
        << <<"deviceId", device_id>>,
           <<"sensorType", "DHT22">>,
           <<"temperature", Round2(temperature)>>,
           <<"humidity", Round2(humidity)>>,
           <<"timestamp", IsoFormat(now)>> >>

\* mutant: the decay is added instead of subtracted
SoilRawGrowing(u, fired, jump) ==
    IF fired THEN soil_moisture + u + jump ELSE soil_moisture + u

\* the value of self.soil_moisture before the clamp
SoilRaw(u, fired, jump) == IF fired THEN soil_moisture - u + jump ELSE soil_moisture - u

\* mutant: the lower limit of the clamp is missing
SoilClampNoFloor(x) == Min(70000, x)

SoilClamp(x) == Max(20000, Min(70000, x))

simulate_soil_moisture(device_id, u, fired, jump) ==
    FarmMember \o
    << <<"deviceId", device_id>>,
       <<"sensorType", "SOIL_MOISTURE">>,
       <<"soilMoisture", Round2(SoilClamp(SoilRaw(u, fired, jump)))>>,
       <<"timestamp", IsoFormat(now)>> >>

LightClamp(x) == Max(0, x)

\* the new self.light_intensity
LightNext(noise, night) ==
    LET hour == get_time_factor
    IN  IF 6 <= hour /\ hour <= 18
        THEN LightClamp(50 * 1000 * SinMilli(hour) + noise)
        ELSE LightClamp(night)

simulate_light_sensor(device_id, noise, night) ==
    FarmMember \o
    << <<"deviceId", device_id>>,
       <<"sensorType", "LIGHT">>,
       <<"lightIntensity", Round2(LightNext(noise, night))>>,
       <<"timestamp", IsoFormat(now)>> >>

PhClamp(x) == Max(5500, Min(7500, x))

\* sensor_simulator.py names the measurement "ph", sensor_simulator1.py "soilPH"
\* (and leaves farmId out of this one reading)
PhField == IF script = "sensor_simulator1" THEN "soilPH" ELSE "ph"

simulate_ph_sensor(device_id, u) ==
    << <<"deviceId", device_id>>,
       <<"sensorType", "PH">>,
       <<PhField, Round2(PhClamp(ph_level + u))>>,
       <<"timestamp", IsoFormat(now)>> >>

----------------------------------------------------------------------------
(* Positions of the main thread *)

\* inside the try block of run_simulation
TryPcs == {"tick", "device", "publish", "sleep"}

\* the main thread is still running
RunPcs == {"connect", "wait", "ret", "online", "offline"} \cup TryPcs

----------------------------------------------------------------------------
(* SensorSimulator.__init__ followed by main()'s call of run_simulation *)

Init ==
    /\ script \in Scripts
    /\ devices \in Rosters
    /\ pc = "connect"
    /\ i = 1
    /\ iteration = 0
    /\ data = NoData
    /\ connected = FALSE
    /\ base_temperature = 28000
    /\ base_humidity = 65000
    /\ soil_moisture = 50000
    /\ light_intensity = 10000000
    /\ ph_level = 6500
    /\ start_time = 0
    /\ now = 0
    /\ netLoop = FALSE
    /\ session = "none"
    /\ connectResult = "none"
    /\ connectCalls = 0
    /\ interrupted = FALSE
    /\ intrAt = "none"
    /\ ackPc = "none"
    /\ dropped = FALSE
    /\ statusLog = << >>
    /\ tickLog = << >>
    /\ lastPub = NoPub
    /\ readings = 0
    /\ soilStep = NoSoilStep
    /\ ticksLeft = IF devices = RosterOne THEN MaxTicks ELSE MaxTicksMixed
    /\ stamps = NoStamps
    /\ clockBack = FALSE
    /\ soilWrites = 0

----------------------------------------------------------------------------
(* The MQTT callbacks, run by the client's background thread *)

\* mutant: the flag is set whatever the CONNACK code
on_connect_any_rc ==
    /\ netLoop
    /\ session = "connecting"
    /\ \E rc \in ConnackCodes :
          /\ connected' = TRUE
          /\ session' = IF rc = 0 THEN "up" ELSE "refused"
          /\ ackPc' = IF rc = 0 /\ ackPc = "none" THEN pc ELSE ackPc
    /\ UNCHANGED <<script, devices, pc, i, iteration, data, simState, start_time, now,
                   netLoop, connectResult, connectCalls, interrupted, intrAt, dropped,
                   statusLog, tickLog, lastPub, readings, soilStep, ticksLeft,
                   stamps, clockBack, soilWrites>>

on_connect ==
    /\ netLoop
    /\ session = "connecting"
    /\ \E rc \in ConnackCodes :
          IF rc = 0
          THEN /\ connected' = TRUE
               /\ session' = "up"
               /\ ackPc' = IF ackPc = "none" THEN pc ELSE ackPc
          ELSE /\ session' = "refused"
               /\ UNCHANGED <<connected, ackPc>>
    /\ UNCHANGED <<script, devices, pc, i, iteration, data, simState, start_time, now,
                   netLoop, connectResult, connectCalls, interrupted, intrAt, dropped,
                   statusLog, tickLog, lastPub, readings, soilStep, ticksLeft,
                   stamps, clockBack, soilWrites>>

on_disconnect ==
    /\ netLoop
    /\ session \in {"up", "refused"}
    /\ connected' = FALSE
    /\ session' = "down"
    /\ dropped' = (dropped \/ pc \in TryPcs)
    /\ UNCHANGED <<script, devices, pc, i, iteration, data, simState, start_time, now,
                   netLoop, connectResult, connectCalls, interrupted, intrAt, ackPc,
                   statusLog, tickLog, lastPub, readings, soilStep, ticksLeft,
                   stamps, clockBack, soilWrites>>

\* the background loop started by loop_start() dials the broker again by itself
LoopReconnect ==
    /\ netLoop
    /\ session = "down"
    /\ session' = "connecting"
    /\ UNCHANGED <<script, devices, pc, i, iteration, data, connected, simState,
                   start_time, now, netLoop, connectResult, connectCalls, interrupted,
                   intrAt, ackPc, dropped, statusLog, tickLog, lastPub, readings,
                   soilStep, ticksLeft,
                   stamps, clockBack, soilWrites>>

----------------------------------------------------------------------------
(* connect() *)

\* client.connect raises: connect() returns False and run_simulation returns
ConnectRaises ==
    /\ pc = "connect"
    /\ connectCalls' = connectCalls + 1
    /\ connectResult' = "false"
    /\ pc' = "exit"
    /\ UNCHANGED <<script, devices, i, iteration, data, connected, simState, start_time,
                   now, netLoop, session, interrupted, intrAt, ackPc, dropped, statusLog,
                   tickLog, lastPub, readings, soilStep, ticksLeft,
                   stamps, clockBack, soilWrites>>

\* client.connect succeeds, loop_start() starts the background thread
ConnectStart ==
    /\ pc = "connect"
    /\ connectCalls' = connectCalls + 1
    /\ netLoop' = TRUE
    /\ session' = "connecting"
    /\ pc' = "wait"
    /\ UNCHANGED <<script, devices, i, iteration, data, connected, simState, start_time,
                   now, connectResult, interrupted, intrAt, ackPc, dropped, statusLog,
                   tickLog, lastPub, readings, soilStep, ticksLeft,
                   stamps, clockBack, soilWrites>>

\* the wait loop ends: the flag was seen set, or the 10 s have elapsed
\* (the passes that sleep 0.1 s and test again change nothing)
ConnectWaitEnds ==
    /\ pc = "wait"
    /\ pc' = "ret"
    /\ UNCHANGED <<script, devices, i, iteration, data, connected, simState, start_time,
                   now, netLoop, session, connectResult, connectCalls, interrupted,
                   intrAt, ackPc, dropped, statusLog, tickLog, lastPub, readings,
                   soilStep, ticksLeft,
                   stamps, clockBack, soilWrites>>

\* what run_simulation does with the value connect() returns
AfterConnect(ok) == IF ok THEN "online" ELSE "exit"

\* return self.connected, and run_simulation's test of it
ConnectReturn ==
    /\ pc = "ret"
    /\ connectResult' = IF connected THEN "true" ELSE "false"
    /\ pc' = AfterConnect(connected)
    /\ i' = 1
    /\ UNCHANGED <<script, devices, iteration, data, connected, simState, start_time,
                   now, netLoop, session, connectCalls, interrupted, intrAt, ackPc,
                   dropped, statusLog, tickLog, lastPub, readings, soilStep, ticksLeft,
                   stamps, clockBack, soilWrites>>

----------------------------------------------------------------------------
(* The two publish helpers *)

SensorTopic(device_id) == <<"sensor", device_id, "data">>
StatusTopic(device_id) == <<"device", device_id, "status">>

\* the message publish_sensor_data hands to client.publish, and the code it got
SensorMessage(device_id, d, rc) ==
    [topic |-> SensorTopic(device_id), payload |-> json_dumps(d), qos |-> 1, rc |-> rc]

\* the message publish_device_status hands to client.publish
StatusMessage(device_id, status, rc) ==
    [topic |-> StatusTopic(device_id),
     payload |-> json_dumps(FarmMember \o
                            << <<"deviceId", device_id>>,
                               <<"status", status>>,
                               <<"timestamp", IsoFormat(now)>> >>),
     qos |-> 1,
     rc |-> rc]

\* the code client.publish returns is dropped
publish_device_status(device_id, status) ==
    /\ lastPub' = StatusMessage(device_id, status, MQTT_ERR_SUCCESS)
    /\ statusLog' = Append(statusLog, [id |-> device_id, status |-> status])

\* mutant: a failed publish is tried again
AfterPublishRetry(rc) ==
    IF rc = MQTT_ERR_SUCCESS THEN [pc |-> "device", i |-> i + 1]
                             ELSE [pc |-> "publish", i |-> i]

\* where the device loop goes after publish_sensor_data returned rc
AfterPublish(rc) == [pc |-> "device", i |-> i + 1]

publish_sensor_data(device_id, d) ==
    \E rc \in PublishCodes :
        /\ lastPub' = SensorMessage(device_id, d, rc)
        /\ tickLog' = Append(tickLog, [dev |-> i,
                                       topic |-> SensorTopic(device_id),
                                       deviceId |-> Get(d, "deviceId"),
                                       sensorType |-> Get(d, "sensorType")])
        /\ pc' = AfterPublish(rc).pc
        /\ i' = AfterPublish(rc).i

----------------------------------------------------------------------------
(* run_simulation after connect() *)

\* for device in devices: publish_device_status(device["id"], "ONLINE")
PublishOnline ==
    /\ pc = "online"
    /\ i <= Len(devices)
    /\ publish_device_status(devices[i].id, "ONLINE")
    /\ i' = i + 1
    /\ UNCHANGED <<script, devices, pc, iteration, data, connected, simState, start_time,
                   now, netLoop, session, connectResult, connectCalls, interrupted,
                   intrAt, ackPc, dropped, tickLog, readings, soilStep, ticksLeft,
                   stamps, clockBack, soilWrites>>

\* mutant: the loop is entered with the last ONLINE status still to send
EnterLoopEarly ==
    /\ pc = "online"
    /\ i >= Len(devices)
    /\ iteration' = 0
    /\ pc' = "tick"
    /\ UNCHANGED <<script, devices, i, data, connected, simState, start_time, now,
                   netLoop, session, connectResult, connectCalls, interrupted, intrAt,
                   ackPc, dropped, statusLog, tickLog, lastPub, readings, soilStep,
                   ticksLeft,
                   stamps, clockBack, soilWrites>>

\* try: iteration = 0
EnterLoop ==
    /\ pc = "online"
    /\ i > Len(devices)
    /\ iteration' = 0
    /\ pc' = "tick"
    /\ UNCHANGED <<script, devices, i, data, connected, simState, start_time, now,
                   netLoop, session, connectResult, connectCalls, interrupted, intrAt,
                   ackPc, dropped, statusLog, tickLog, lastPub, readings, soilStep,
                   ticksLeft,
                   stamps, clockBack, soilWrites>>

\* mutant: a tick starts only while the connected flag is set
TickStartIfConnected ==
    /\ pc = "tick"
    /\ connected
    /\ ticksLeft > 0
    /\ ticksLeft' = ticksLeft - 1
    /\ iteration' = iteration + 1
    /\ i' = 1
    /\ tickLog' = << >>
    /\ soilWrites' = 0
    /\ pc' = "device"
    /\ UNCHANGED <<script, devices, data, connected, simState, start_time, now, netLoop,
                   session, connectResult, connectCalls, interrupted, intrAt, ackPc,
                   dropped, statusLog, lastPub, readings, soilStep,
                   stamps, clockBack>>

\* while True: iteration += 1, the hour is printed, the device loop starts
TickStart ==
    /\ pc = "tick"
    /\ ticksLeft > 0
    /\ ticksLeft' = ticksLeft - 1
    /\ iteration' = iteration + 1
    /\ i' = 1
    /\ tickLog' = << >>
    /\ soilWrites' = 0
    /\ pc' = "device"
    /\ UNCHANGED <<script, devices, data, connected, simState, start_time, now, netLoop,
                   session, connectResult, connectCalls, interrupted, intrAt, ackPc,
                   dropped, statusLog, lastPub, readings, soilStep,
                   stamps, clockBack>>

\* mutant: the dispatch has no PH branch
DispatchNoPh(device_type) ==
    IF device_type \in KnownTypes \ {"PH"} THEN device_type ELSE "continue"

\* the branch of the dispatch a device type takes
Dispatch(device_type) == IF device_type \in KnownTypes THEN device_type ELSE "continue"

AtDevice(kind) ==
    /\ pc = "device"
    /\ i <= Len(devices)
    /\ Dispatch(devices[i].type) = kind

\* mutant: the DHT22 transition keeps its noise in the base temperature
SimulateDht22Drifts ==
    /\ AtDevice("DHT22")
    /\ \E n1 \in TempNoise, n2 \in HumNoise :
          /\ data' = simulate_dht22(devices[i].id, n1, n2)
          /\ base_temperature' = base_temperature + n1
    /\ readings' = readings + 1
    /\ pc' = "publish"
    /\ UNCHANGED <<script, devices, i, iteration, connected, base_humidity, soil_moisture,
                   light_intensity, ph_level, start_time, now, netLoop, session,
                   connectResult, connectCalls, interrupted, intrAt, ackPc, dropped,
                   statusLog, tickLog, lastPub, soilStep, ticksLeft, stamps, clockBack,
                   soilWrites>>

SimulateDht22 ==
    /\ AtDevice("DHT22")
    /\ \E n1 \in TempNoise, n2 \in HumNoise :
          data' = simulate_dht22(devices[i].id, n1, n2)
    /\ readings' = readings + 1
    /\ pc' = "publish"
    /\ UNCHANGED <<script, devices, i, iteration, connected, simState, start_time, now,
                   netLoop, session, connectResult, connectCalls, interrupted, intrAt,
                   ackPc, dropped, statusLog, tickLog, lastPub, soilStep, ticksLeft,
                   stamps, clockBack, soilWrites>>

SimulateSoilMoisture ==
    /\ AtDevice("SOIL_MOISTURE")
    /\ \E u \in SoilDecay, fired \in BOOLEAN, jump \in SoilIrrigation :
          /\ soil_moisture' = SoilClamp(SoilRaw(u, fired, jump))
          /\ data' = simulate_soil_moisture(devices[i].id, u, fired, jump)
          /\ soilStep' = [before |-> soil_moisture,
                          raw |-> SoilRaw(u, fired, jump),
                          after |-> SoilClamp(SoilRaw(u, fired, jump)),
                          fired |-> fired,
                          decay |-> u]
    /\ soilWrites' = soilWrites + 1
    /\ readings' = readings + 1
    /\ pc' = "publish"
    /\ UNCHANGED <<script, devices, i, iteration, connected, base_temperature,
                   base_humidity, light_intensity, ph_level, start_time, now, netLoop,
                   session, connectResult, connectCalls, interrupted, intrAt, ackPc,
                   dropped, statusLog, tickLog, lastPub, ticksLeft,
                   stamps, clockBack>>

SimulateLightSensor ==
    /\ AtDevice("LIGHT")
    /\ \E noise \in LightNoise, night \in NightLight :
          /\ light_intensity' = LightNext(noise, night)
          /\ data' = simulate_light_sensor(devices[i].id, noise, night)
    /\ readings' = readings + 1
    /\ pc' = "publish"
    /\ UNCHANGED <<script, devices, i, iteration, connected, base_temperature,
                   base_humidity, soil_moisture, ph_level, start_time, now, netLoop,
                   session, connectResult, connectCalls, interrupted, intrAt, ackPc,
                   dropped, statusLog, tickLog, lastPub, soilStep, ticksLeft,
                   stamps, clockBack, soilWrites>>

SimulatePhSensor ==
    /\ AtDevice("PH")
    /\ \E u \in PhNoise :
          /\ ph_level' = PhClamp(ph_level + u)
          /\ data' = simulate_ph_sensor(devices[i].id, u)
    /\ readings' = readings + 1
    /\ pc' = "publish"
    /\ UNCHANGED <<script, devices, i, iteration, connected, base_temperature,
                   base_humidity, soil_moisture, light_intensity, start_time, now,
                   netLoop, session, connectResult, connectCalls, interrupted, intrAt,
                   ackPc, dropped, statusLog, tickLog, lastPub, soilStep, ticksLeft,
                   stamps, clockBack, soilWrites>>

\* mutant: break instead of continue
SkipDeviceBreaks ==
    /\ pc = "device"
    /\ i <= Len(devices)
    /\ devices[i].type \notin KnownTypes
    /\ pc' = "sleep"
    /\ UNCHANGED <<script, devices, i, iteration, data, connected, simState, start_time,
                   now, netLoop, session, connectResult, connectCalls, interrupted,
                   intrAt, ackPc, dropped, statusLog, tickLog, lastPub, readings,
                   soilStep, ticksLeft,
                   stamps, clockBack, soilWrites>>

\* else: continue
SkipDevice ==
    /\ AtDevice("continue")
    /\ i' = i + 1
    /\ UNCHANGED <<script, devices, pc, iteration, data, connected, simState, start_time,
                   now, netLoop, session, connectResult, connectCalls, interrupted,
                   intrAt, ackPc, dropped, statusLog, tickLog, lastPub, readings,
                   soilStep, ticksLeft,
                   stamps, clockBack, soilWrites>>

\* self.publish_sensor_data(device_id, data)
Publish ==
    /\ pc = "publish"
    /\ publish_sensor_data(devices[i].id, data)
    /\ data' = NoData
    /\ soilStep' = NoSoilStep
    /\ stamps' = [stamps EXCEPT ![i] = Get(data, "timestamp")]
    /\ UNCHANGED <<script, devices, iteration, connected, simState, start_time, now,
                   netLoop, session, connectResult, connectCalls, interrupted, intrAt,
                   ackPc, dropped, statusLog, readings, ticksLeft,
                   clockBack, soilWrites>>

\* the device loop is exhausted
EndTick ==
    /\ pc = "device"
    /\ i > Len(devices)
    /\ pc' = "sleep"
    /\ UNCHANGED <<script, devices, i, iteration, data, connected, simState, start_time,
                   now, netLoop, session, connectResult, connectCalls, interrupted,
                   intrAt, ackPc, dropped, statusLog, tickLog, lastPub, readings,
                   soilStep, ticksLeft,
                   stamps, clockBack, soilWrites>>

\* the readings of the wall clock after a time.sleep that began at t: up to
\* MaxSleep units later, or earlier when the system clock was set back meanwhile
\* (time.time() and datetime.now() read the system's wall clock, which an
\* administrator, an NTP step or, for the naive local datetime.now(), the end
\* of daylight saving time moves backwards)
ClockAfter(t) == { u \in 0..MaxNow : u <= t + MaxSleep }

\* time.sleep(interval): the clock moves
Sleep ==
    /\ pc = "sleep"
    /\ \E u \in ClockAfter(now) :
          /\ now' = u
          /\ clockBack' = (u < now)
    /\ pc' = "tick"
    /\ UNCHANGED <<script, devices, i, iteration, data, connected, simState, start_time,
                   netLoop, session, connectResult, connectCalls, interrupted, intrAt,
                   ackPc, dropped, statusLog, tickLog, lastPub, readings, soilStep,
                   ticksLeft, stamps, soilWrites>>

\* where a KeyboardInterrupt raised at position p takes the main thread: the
\* except clause covers the try block only
HandlerFor(p) == IF p \in TryPcs THEN "offline" ELSE "killed"

KeyboardInterrupt ==
    /\ ~interrupted
    /\ pc \in RunPcs \ {"offline"}
    /\ interrupted' = TRUE
    /\ intrAt' = pc
    /\ pc' = HandlerFor(pc)
    /\ i' = 1
    /\ UNCHANGED <<script, devices, iteration, data, connected, simState, start_time,
                   now, netLoop, session, connectResult, connectCalls, ackPc, dropped,
                   statusLog, tickLog, lastPub, readings, soilStep, ticksLeft,
                   stamps, clockBack, soilWrites>>

\* for device in devices: publish_device_status(device["id"], "OFFLINE")
PublishOffline ==
    /\ pc = "offline"
    /\ i <= Len(devices)
    /\ publish_device_status(devices[i].id, "OFFLINE")
    /\ i' = i + 1
    /\ UNCHANGED <<script, devices, pc, iteration, data, connected, simState, start_time,
                   now, netLoop, session, connectResult, connectCalls, interrupted,
                   intrAt, ackPc, dropped, tickLog, readings, soilStep, ticksLeft,
                   stamps, clockBack, soilWrites>>

\* mutant: the session is closed before the OFFLINE loop has finished
disconnect_early ==
    /\ pc = "offline"
    /\ netLoop' = FALSE
    /\ session' = "closed"
    /\ pc' = "exit"
    /\ UNCHANGED <<script, devices, i, iteration, data, connected, simState, start_time,
                   now, connectResult, connectCalls, interrupted, intrAt, ackPc, dropped,
                   statusLog, tickLog, lastPub, readings, soilStep, ticksLeft,
                   stamps, clockBack, soilWrites>>

\* self.disconnect(): loop_stop(), client.disconnect()
disconnect ==
    /\ pc = "offline"
    /\ i > Len(devices)
    /\ netLoop' = FALSE
    /\ session' = "closed"
    /\ pc' = "exit"
    /\ UNCHANGED <<script, devices, i, iteration, data, connected, simState, start_time,
                   now, connectResult, connectCalls, interrupted, intrAt, ackPc, dropped,
                   statusLog, tickLog, lastPub, readings, soilStep, ticksLeft,
                   stamps, clockBack, soilWrites>>

----------------------------------------------------------------------------
(* The program *)

TickLoop ==
    \/ TickStart
    \/ SimulateDht22
    \/ SimulateSoilMoisture
    \/ SimulateLightSensor
    \/ SimulatePhSensor
    \/ SkipDevice
    \/ Publish
    \/ EndTick
    \/ Sleep

Next ==
    \/ ConnectRaises
    \/ ConnectStart
    \/ ConnectWaitEnds
    \/ ConnectReturn
    \/ PublishOnline
    \/ EnterLoop
    \/ TickLoop
    \/ KeyboardInterrupt
    \/ PublishOffline
    \/ disconnect
    \/ on_connect
    \/ on_disconnect
    \/ LoopReconnect

Spec == Init /\ [][Next]_vars

----------------------------------------------------------------------------
(* The tick loop late in a run.  After StartIteration ticks the shared      *)
(* scalars can stand anywhere the clamps allow, the limits included (soil   *)
(* moisture needs 200 decays to fall from 50 to 20, the pH 50 steps to      *)
(* reach a limit), which no exploration from __init__ gets to; SpecSim      *)
(* starts the loop there, at the top of a tick, with the scalars drawn      *)
(* from samples at and next to the limits.                                  *)

SoilSamples == {20000, 20100, 50000, 69900, 70000}
PhSamples == {5500, 5510, 6500, 7500}
LightSamples == {0, 10000000}

\* the tick before: every device of a known kind published once, the pH last
PreviousTickLog ==
    LET known == SelectSeq([n \in 1..Len(RosterMixed) |-> n],
                           LAMBDA n : RosterMixed[n].type \in KnownTypes)
    IN  [k \in 1..Len(known) |->
            [dev |-> known[k],
             topic |-> <<"sensor", RosterMixed[known[k]].id, "data">>,
             deviceId |-> RosterMixed[known[k]].id,
             sensorType |-> RosterMixed[known[k]].type]]

InitSim ==
    /\ script \in Scripts
    /\ devices = RosterMixed
    /\ pc = "tick"
    /\ i = Len(RosterMixed) + 1
    /\ iteration = StartIteration
    /\ data = NoData
    /\ connected = TRUE
    /\ base_temperature = 28000
    /\ base_humidity = 65000
    /\ soil_moisture \in SoilSamples
    /\ light_intensity \in LightSamples
    /\ ph_level \in PhSamples
    /\ start_time = 0
    /\ now \in 0..MaxNow
    /\ netLoop = TRUE
    /\ session = "up"
    /\ connectResult = "true"
    /\ connectCalls = 1
    /\ interrupted = FALSE
    /\ intrAt = "none"
    /\ ackPc = "wait"
    /\ dropped = FALSE
    /\ statusLog = [n \in 1..Len(RosterMixed) |->
                       [id |-> RosterMixed[n].id, status |-> "ONLINE"]]
    /\ tickLog = PreviousTickLog
    /\ lastPub = [topic |-> <<"sensor", "PH-001", "data">>,
                  payload |-> json_dumps(<< <<"deviceId", "PH-001">>,
                                            <<"sensorType", "PH">>,
                                            <<PhField, Round2(ph_level)>>,
                                            <<"timestamp", IsoFormat(now)>> >>),
                  qos |-> 1,
                  rc |-> MQTT_ERR_SUCCESS]
    /\ readings = StartIteration * Len(PreviousTickLog)
    /\ soilStep = NoSoilStep
    /\ ticksLeft = MaxTicksSim
    /\ stamps = [n \in 1..Len(RosterMixed) |->
                    IF RosterMixed[n].type \in KnownTypes THEN IsoFormat(now) ELSE NoStamp]
    /\ clockBack = FALSE
    /\ soilWrites = Cardinality({n \in 1..Len(RosterMixed) :
                                    RosterMixed[n].type = "SOIL_MOISTURE"})

SpecSim == InitSim /\ [][TickLoop]_vars

----------------------------------------------------------------------------
(* Properties *)

IsSensorPub(m) == m.topic # << >> /\ m.topic[1] = "sensor"

InRange(p, k, lo, hi) == k \in Members(p) => (lo <= Member(p, k) /\ Member(p, k) <= hi)

\* the measurement members of a serialised reading are inside their ranges
ReadingInRange(p) ==
    /\ InRange(p, "humidity", 30000, 95000)
    /\ InRange(p, "soilMoisture", 20000, 70000)
    /\ InRange(p, "ph", 5500, 7500)
    /\ InRange(p, "soilPH", 5500, 7500)
    /\ "lightIntensity" \in Members(p) => Member(p, "lightIntensity") >= 0

ScalarsInRange ==
    /\ 20000 <= soil_moisture /\ soil_moisture <= 70000
    /\ 5500 <= ph_level /\ ph_level <= 7500
    /\ light_intensity >= 0

\* C1: every reading generated or handed to the client has its humidity in
\* [30,95], soilMoisture in [20,70], pH in [5.5,7.5] and lightIntensity >= 0,
\* and the stored soil_moisture, ph_level and light_intensity satisfy the same
\* limits in every state (initially and after every simulate_* call).
C1_ValuesInRange ==
    /\ ScalarsInRange
    /\ IsSensorPub(lastPub) => ReadingInRange(lastPub.payload)
    /\ data # NoData => ReadingInRange(json_dumps(data))

\* a soil reading published at the lower limit after a decay that went below it
C1_Witness ==
    /\ iteration > StartIteration
    /\ IsSensorPub(lastPub)
    /\ "soilMoisture" \in Members(lastPub.payload)
    /\ Member(lastPub.payload, "soilMoisture") = 20000
    /\ soil_moisture = 20000

SoilStepDone == pc = "publish" /\ soilStep # NoSoilStep

\* C2 as stated: without an irrigation event the new soil_moisture is <= the
\* previous value; with one, the value before the clamp exceeds the previous
\* value by an amount in [15,25].
C2_Original ==
    SoilStepDone =>
        IF soilStep.fired
        THEN /\ soilStep.raw - soilStep.before >= 15000
             /\ soilStep.raw - soilStep.before <= 25000
        ELSE soilStep.after <= soilStep.before

\* C2 amended: without an irrigation event the new soil_moisture is <= the
\* previous value; with one, the value before the clamp exceeds the decayed
\* value (the previous value minus this call's decay of 0.05..0.15) by an
\* amount in [15,25], hence exceeds the previous value by an amount in
\* [14.85,24.95], which is still a strict increase.
C2_SoilStep ==
    SoilStepDone =>
        /\ soilStep.decay >= 50 /\ soilStep.decay <= 150
        /\ soilStep.after = soil_moisture
        /\ IF soilStep.fired
           THEN /\ soilStep.raw - (soilStep.before - soilStep.decay) >= 15000
                /\ soilStep.raw - (soilStep.before - soilStep.decay) <= 25000
                /\ soilStep.raw - soilStep.before >= 14850
                /\ soilStep.raw - soilStep.before <= 24950
                /\ soilStep.raw > soilStep.before
           ELSE /\ soilStep.raw < soilStep.before
                /\ soilStep.after <= soilStep.before

\* an irrigation event whose net gain over the previous value is below 15
C2_Witness ==
    /\ SoilStepDone
    /\ soilStep.fired
    /\ soilStep.raw - soilStep.before = 14850

----------------------------------------------------------------------------
(* Status events *)

\* the ids given the status, in the order of the publishes
StatusIds(status) ==
    LET hits == SelectSeq(statusLog, LAMBDA e : e.status = status)
    IN  [n \in 1..Len(hits) |-> hits[n].id]

RosterIds == [n \in 1..Len(devices) |-> devices[n].id]

SeqSet(q) == { q[n] : n \in 1..Len(q) }

\* one OFFLINE per roster entry, in roster order, for the ids given ONLINE
OfflineForAll ==
    /\ StatusIds("OFFLINE") = RosterIds
    /\ SeqSet(StatusIds("OFFLINE")) = SeqSet(StatusIds("ONLINE"))

\* C3 as stated: whenever run_simulation has been interrupted, at any point,
\* and has ended, exactly one OFFLINE status was published per configured
\* device, for the same ids that were given ONLINE.
C3_Original ==
    (interrupted /\ pc \in {"exit", "killed"}) => OfflineForAll

\* C3 amended: when the KeyboardInterrupt is raised inside the try block (the
\* tick loop, entered after the last ONLINE status, after N >= 0 ticks),
\* exactly one OFFLINE status is published per configured device, in roster
\* order and for exactly the ids given ONLINE at startup, all of them before
\* disconnect() closes the session; an interrupt raised during connect() or
\* during the ONLINE loop is not handled and nothing is published after it.
C3_OfflineOnInterrupt ==
    /\ (interrupted /\ intrAt \in TryPcs /\ pc = "exit") => OfflineForAll
    /\ session = "closed" => (pc = "exit" /\ OfflineForAll)
    /\ pc = "offline" => (/\ intrAt \in TryPcs
                          /\ StatusIds("OFFLINE") = SubSeq(RosterIds, 1, i - 1)
                          /\ StatusIds("ONLINE") = RosterIds)
    /\ pc = "killed" => (/\ intrAt \notin TryPcs
                         /\ StatusIds("OFFLINE") = << >>
                         /\ session # "closed")
    /\ ~interrupted => StatusIds("OFFLINE") = << >>

\* an interrupt between simulate_* and publish, handled to the end
C3_Witness ==
    /\ interrupted
    /\ intrAt = "publish"
    /\ pc = "exit"
    /\ session = "closed"
    /\ Len(devices) > 1
    /\ Len(StatusIds("OFFLINE")) = Len(devices)

\* C4: once the tick loop has started (and so before any sensor reading is
\* generated or published) an ONLINE status has been published for every
\* roster device, in roster order; ONLINE statuses are the first entries of
\* the status log only, none is published after the loop has started.
C4_OnlineBeforeReadings ==
    /\ (pc \in TryPcs \/ readings > 0 \/ IsSensorPub(lastPub) \/ data # NoData)
          => StatusIds("ONLINE") = RosterIds
    /\ \A k \in 1..Len(statusLog) :
          statusLog[k].status = "ONLINE" <=> k <= Len(StatusIds("ONLINE"))
    /\ Len(StatusIds("ONLINE")) <= Len(devices)
    /\ pc = "online" => StatusIds("ONLINE") = SubSeq(RosterIds, 1, i - 1)

\* a reading has been published and the roster has several devices
C4_Witness ==
    /\ IsSensorPub(lastPub)
    /\ Len(devices) > 1
    /\ iteration = 1
    /\ StatusIds("ONLINE") = RosterIds

----------------------------------------------------------------------------
(* connect() failing *)

NothingDone ==
    /\ statusLog = << >>
    /\ tickLog = << >>
    /\ lastPub = NoPub
    /\ data = NoData
    /\ readings = 0
    /\ iteration = 0
    /\ simState = <<28000, 65000, 50000, 10000000, 6500>>

\* C5 as stated: if no CONNACK with rc = 0 arrived before the wait loop of
\* connect() ran out of time (or client.connect raised), connect() returns
\* False and nothing is published or changed.
C5_Original ==
    (connectResult # "none" /\ ackPc # "wait") =>
        (connectResult = "false" /\ pc = "exit" /\ NothingDone)

\* C5 amended: if no CONNACK with rc = 0 has arrived by the time connect()
\* reads self.connected for its return value (no acknowledgement at all, a
\* refusal with rc != 0, or an exception from client.connect), connect()
\* returns False; and whenever connect() returns False, run_simulation
\* returns without starting the loop: no ONLINE/OFFLINE status and no sensor
\* reading is ever published and no simulation state is changed.  (A CONNACK
\* with rc = 0 that arrives after the wait loop has timed out but before the
\* return statement reads the flag makes connect() return True.)
C5_FailedConnect ==
    /\ (connectResult # "none" /\ ackPc \notin {"wait", "ret"}) => connectResult = "false"
    /\ connectResult = "false" => (pc = "exit" /\ ~interrupted /\ NothingDone)
    /\ connectResult = "true" => ackPc \in {"wait", "ret"}

\* connect() has returned False after the broker refused the connection
C5_Witness ==
    /\ connectResult = "false"
    /\ session = "refused"
    /\ pc = "exit"
    /\ connectCalls = 1

----------------------------------------------------------------------------
(* The tick loop *)

\* the roster positions up to n whose type the dispatch knows, in roster order
KnownUpTo(n) ==
    SelectSeq([k \in 1..n |-> k], LAMBDA k : devices[k].type \in KnownTypes)

\* the tickLog entry the device at roster position k must have produced
EntryOf(k) ==
    [dev |-> k,
     topic |-> <<"sensor", devices[k].id, "data">>,
     deviceId |-> devices[k].id,
     sensorType |-> devices[k].type]

ExpectedLog(n) == [k \in 1..Len(KnownUpTo(n)) |-> EntryOf(KnownUpTo(n)[k])]

\* C6: in every tick each roster device of a known kind gets exactly one
\* reading and exactly one publish attempt, on topic sensor/{deviceId}/data,
\* in roster order, the payload's deviceId and sensorType being the device's
\* id and kind: during a tick the publishes made are those of the known-kind
\* devices already passed, at its end those of all of them, and the number
\* of readings generated is the number of completed ticks times the number
\* of known-kind devices plus those of the running tick; so a one-DHT22
\* roster has produced exactly 3 DHT22 readings after 3 ticks.
C6_OneReadingPerDevice ==
    /\ pc \in {"device", "sleep"} =>
          /\ tickLog = ExpectedLog(i - 1)
          /\ readings = (iteration - 1) * Len(KnownUpTo(Len(devices))) + Len(tickLog)
    /\ pc = "publish" =>
          /\ devices[i].type \in KnownTypes
          /\ tickLog = ExpectedLog(i - 1)
          /\ Get(data, "deviceId") = devices[i].id
          /\ Get(data, "sensorType") = devices[i].type
          /\ readings = (iteration - 1) * Len(KnownUpTo(Len(devices))) + Len(tickLog) + 1
    /\ pc = "sleep" => i = Len(devices) + 1
    /\ (pc = "tick" /\ iteration > 0) =>
          /\ tickLog = ExpectedLog(Len(devices))
          /\ readings = iteration * Len(KnownUpTo(Len(devices)))
    /\ (IsSensorPub(lastPub) /\ tickLog # << >>) =>
          /\ lastPub.topic = tickLog[Len(tickLog)].topic
          /\ lastPub.qos = 1
          /\ Member(lastPub.payload, "deviceId") = tickLog[Len(tickLog)].deviceId
          /\ Member(lastPub.payload, "sensorType") = tickLog[Len(tickLog)].sensorType
    /\ (devices = RosterOne /\ iteration = 3 /\ pc = "sleep") =>
          (readings = 3 /\ Member(lastPub.payload, "sensorType") = "DHT22")

\* the scenario: one DHT22 device, three ticks done
C6_Witness ==
    /\ devices = RosterOne
    /\ iteration = 3
    /\ pc = "sleep"
    /\ readings = 3
    /\ tickLog = << EntryOf(1) >>

FailedLast == IsSensorPub(lastPub) /\ lastPub.rc # MQTT_ERR_SUCCESS

NoRepeat == \A a, b \in 1..Len(tickLog) : tickLog[a].dev = tickLog[b].dev => a = b

\* the loop is able to take its next step (or the exploration's ticks are used up)
LoopGoesOn == ENABLED TickLoop \/ (pc = "tick" /\ ticksLeft = 0)

\* C7: a publish_sensor_data call whose client.publish returns a code other
\* than MQTT_ERR_SUCCESS moves on to the next device with the reading dropped
\* (no second hand-over of it: no device appears twice in a tick's publishes),
\* and while the failed message is the last one sent (and no KeyboardInterrupt
\* came) the loop is still running and able to take its next step: the rest of
\* the tick and the next tick run.
C7_FailureSkipped ==
    /\ [](NoRepeat /\ ((FailedLast /\ ~interrupted) => (pc \in TryPcs /\ LoopGoesOn)))
    /\ [][(pc = "publish" /\ pc' # "offline" /\ lastPub' # lastPub
           /\ lastPub'.rc # MQTT_ERR_SUCCESS)
          => (/\ pc' = "device"
              /\ i' = i + 1
              /\ data' = NoData
              /\ tickLog' = Append(tickLog, EntryOf(i))
              /\ iteration' = iteration
              /\ connectCalls' = connectCalls)]_vars

\* after a failed publish in the first tick the second tick has started
C7_Witness ==
    /\ FailedLast
    /\ iteration = 2
    /\ pc = "device"
    /\ tickLog = << >>

\* C8: a roster device of an unknown kind is passed over: the step at it
\* generates and publishes nothing and changes no simulation scalar, no tick
\* ever holds a publish for it, and the tick still ends with the publishes of
\* all the known-kind devices before and after it.
C8_UnknownSkipped ==
    /\ [](/\ \A n \in 1..Len(tickLog) : devices[tickLog[n].dev].type \in KnownTypes
          /\ pc = "sleep" =>
                { tickLog[n].dev : n \in 1..Len(tickLog) }
                   = { k \in 1..Len(devices) : devices[k].type \in KnownTypes })
    /\ [][(pc = "device" /\ i <= Len(devices) /\ devices[i].type \notin KnownTypes)
          => (/\ UNCHANGED <<simState, data, tickLog, lastPub, readings, soilStep>>
              /\ \/ (pc' = "device" /\ i' = i + 1)
                 \/ (pc' = "device" /\ i' = i)
                 \/ (pc' = "offline" /\ interrupted'))]_vars

\* a tick of the mixed roster has ended with the pump in the middle passed over
C8_Witness ==
    /\ devices = RosterMixed
    /\ pc = "sleep"
    /\ { tickLog[n].dev : n \in 1..Len(tickLog) } = {1, 2, 4, 5, 6}

\* C9: while the tick loop runs with the connected flag cleared by
\* on_disconnect it is never stuck or ended (it can always take its next
\* step), on_disconnect itself moves nothing in the main thread, every tick
\* that ends after a drop still holds a publish attempt for every known-kind
\* device, and the application calls client.connect once only.
C9_LoopSurvivesDisconnect ==
    /\ []((pc \in TryPcs /\ (~connected \/ dropped)) => LoopGoesOn)
    /\ []((dropped /\ pc = "sleep") => tickLog = ExpectedLog(Len(devices)))
    /\ [](connectCalls <= 1)
    /\ [][(connected /\ ~connected')
          => UNCHANGED <<pc, i, iteration, data, tickLog, lastPub, readings, simState,
                         connectCalls, netLoop>>]_vars

\* the connection dropped during the loop and a later tick has completed
C9_Witness ==
    /\ dropped
    /\ ~connected
    /\ session = "down"
    /\ pc = "sleep"
    /\ iteration >= 2
    /\ tickLog = ExpectedLog(Len(devices))
    /\ tickLog # << >>

CommonFields == {"deviceId", "sensorType", "timestamp"}

MeasurementFields(kind) ==
    CASE kind = "DHT22" -> {"temperature", "humidity"}
      [] kind = "SOIL_MOISTURE" -> {"soilMoisture"}
      [] kind = "LIGHT" -> {"lightIntensity"}
      [] kind = "PH" -> {"soilPH"}

\* C10: every published reading carries deviceId, sensorType and timestamp
\* (farmId being optional) plus exactly the measurement fields of its kind,
\* soilPH for a PH reading, in both scripts.
C10_FieldsPerKind ==
    IsSensorPub(lastPub) =>
        Members(lastPub.payload) \ {"farmId"}
            = CommonFields \cup MeasurementFields(Member(lastPub.payload, "sensorType"))

----------------------------------------------------------------------------
(* Timestamps of a device's successive readings *)

\* a reading of a device that has published before is about to be published
PublishesAgain == pc = "publish" /\ stamps[i] # NoStamp

\* the step publishes each device's reading with a timestamp not before the
\* timestamp of the device's reading of the tick before
StampsNotBefore ==
    \A n \in 1..Len(devices) :
        (stamps[n] # NoStamp /\ stamps'[n] # NoStamp)
            => FromIsoFormat(stamps'[n]) >= FromIsoFormat(stamps[n])

\* C11 as stated: for a fixed device the timestamp of the reading published
\* in tick k+1 is greater than or equal to the timestamp of the reading
\* published in tick k, for every k.
C11_Original == [][StampsNotBefore]_vars

\* C11: for a fixed device the timestamp of the reading published in tick k+1
\* is greater than or equal to the timestamp of the reading published in
\* tick k whenever the wall clock does not read less after the time.sleep
\* between the two ticks than before it; after a clock set back meanwhile the
\* later reading carries the earlier timestamp.
C11_NonDecreasing == [][~clockBack' => StampsNotBefore]_vars

\* in a later tick, with the clock gone forward, a device's reading carries a
\* timestamp after the one of its previous reading
C11_Witness ==
    /\ PublishesAgain
    /\ iteration >= 2
    /\ ~clockBack
    /\ FromIsoFormat(Get(data, "timestamp")) > FromIsoFormat(stamps[i])

----------------------------------------------------------------------------
(* Writers of the simulation state *)

\* the main thread takes the device loop's step for a device of the kind
TransitionOf(kind) == AtDevice(kind) /\ pc' = "publish"

\* number of SOIL_MOISTURE devices in the roster
SoilDevices == Cardinality({ n \in 1..Len(devices) : devices[n].type = "SOIL_MOISTURE" })

\* what a step may write of the simulation state, and which step writes it
SingleWriter ==
    /\ (connected' # connected \/ on_connect \/ on_disconnect)
          => UNCHANGED <<simState, start_time, pc, i, iteration, data, readings>>
    /\ UNCHANGED <<base_temperature, base_humidity>>
    /\ soil_moisture' # soil_moisture => TransitionOf("SOIL_MOISTURE")
    /\ light_intensity' # light_intensity => TransitionOf("LIGHT")
    /\ ph_level' # ph_level => TransitionOf("PH")
    /\ TransitionOf("DHT22") => UNCHANGED simState
    /\ TransitionOf("SOIL_MOISTURE")
          => (/\ soilWrites' = soilWrites + 1
              /\ soil_moisture' = soilStep'.after
              /\ soilStep'.before = soil_moisture)
    /\ soilWrites' # soilWrites => (TransitionOf("SOIL_MOISTURE") \/ soilWrites' = 0)

\* a tick that ran to its end applied the soil transition once per
\* SOIL_MOISTURE device, a tick under way at most that often
SoilAdvancesPerTick ==
    /\ soilWrites <= SoilDevices
    /\ (pc = "sleep" /\ iteration >= 1) => soilWrites = SoilDevices

\* C12: the simulation scalars have a single writer: on_connect and
\* on_disconnect write only the connected flag; in the tick loop a device's
\* transition modifies only the shared scalar of its own kind (soil_moisture,
\* light_intensity or ph_level), the DHT22 transition modifies no simulation
\* state; so a roster with k SOIL_MOISTURE devices advances the shared
\* soil_moisture exactly k times per tick.
C12_SingleWriter == []SoilAdvancesPerTick /\ [][SingleWriter]_vars

\* a tick of the mixed roster has ended: its two soil devices advanced
\* soil_moisture twice, light and pH were written by their devices, the base
\* temperature and humidity stand as constructed, and on_disconnect ran on the
\* background thread while the loop was running
C12_Witness ==
    /\ pc = "sleep"
    /\ devices = RosterMixed
    /\ SoilDevices = 2
    /\ soilWrites = 2
    /\ soil_moisture # 50000
    /\ light_intensity # 10000000
    /\ ph_level # 6500
    /\ base_temperature = 28000
    /\ base_humidity = 65000
    /\ dropped
    /\ ~connected

====
